---- MODULE Spec2Model ----
(***************************************************************************)
(* Ticket lifecycle, audit trail, ticket-ID generator and attachment       *)
(* accessors of the ticket manager backend (backend/main.py,               *)
(* backend/ticket_id_generator.py, backend/database.py, backend/models.py).*)
(***************************************************************************)
EXTENDS Integers, Sequences, FiniteSets, TLC

VARIABLES
    tickets,    \* table "tickets": ticket id -> row
    mods,       \* table "modifications": sequence of rows, in insertion order
    files,      \* regular files below the working directory (paths, as segments)
    dirs,       \* directories below the working directory (paths, as segments)
    now,        \* the clock read by datetime.now() / datetime.utcnow()
    hist,       \* per ticket: what has happened to it so far (history)
    last        \* the last request handled and its response

vars == <<tickets, mods, files, dirs, now, hist, last>>

-----------------------------------------------------------------------------
(* Bounds of the model *)

MaxGenTickets == 3      \* stored tickets (SpecGen)
MaxStatusMods == 1      \* stored modification rows (SpecStatus)
MaxMods == 3            \* stored modification rows (Spec)
MaxFieldMods == 2       \* stored modification rows (SpecFields)
MaxFileTickets == 2     \* stored tickets (SpecFiles)
MaxFileMods == 2        \* stored modification rows (SpecFiles)
MaxNames == 2           \* unique file names drawn are u1..uMaxNames
MaxTrailMods == 3       \* stored modification rows (SpecTrail)
MaxBatchMods == 2       \* stored modification rows (SpecBatch)
MaxAttached == 2        \* attachments of a ticket (SpecBatch, SpecRemove)
MaxRemoveMods == 2      \* stored modification rows (SpecRemove)
MaxCleanMods == 3       \* stored modification rows (SpecClean)
MaxGroupMods == 3       \* stored modification rows (SpecGroups)
MaxGroupNow == 6        \* clock ticks (SpecGroups)
TicksPerSecond == 2     \* clock ticks per second (SpecGroups)
MaxDescribeMods == 1    \* stored modification rows (SpecDescribe)
MaxAuthorMods == 2      \* stored modification rows (SpecAuthors)
MaxAuthorNow == 3       \* clock ticks (SpecAuthors)
MaxPairMods == 3        \* stored modification rows (SpecPairs)
MaxIdTickets == 2       \* stored tickets (SpecIds)
MaxTypeTickets == 2     \* stored tickets (SpecTypes)
MaxTypeMods == 2        \* stored modification rows (SpecTypes)
MaxNow == 2             \* clock ticks
TicksPerDay == 2        \* clock ticks per calendar day
MaxHexDraw == 1         \* random hex parts drawn are Hex6 of 0..MaxHexDraw
MaxEpoch == 2           \* seconds part of time.time() is within 0..MaxEpoch

-----------------------------------------------------------------------------
(* Python values *)

NoneInt == 0 - 1            \* None in an Optional[int] / Optional[date] position
NonePeople == <<"<None>">>  \* None in the Optional[List[str]] position

\* datetime.now().date()
DateOf(t) == t \div TicksPerDay

\* str(v) if v is not None else ""   (v an int)
StrInt(v) == IF v = NoneInt THEN "" ELSE ToString(v)

RECURSIVE JoinStr(_)
JoinStr(s) == IF s = <<>> THEN "" ELSE Head(s) \o JoinStr(Tail(s))

RECURSIVE JoinComma(_)
JoinComma(s) ==
    IF s = <<>> THEN ""
    ELSE IF Len(s) = 1 THEN "'" \o Head(s) \o "'"
    ELSE "'" \o Head(s) \o "', " \o JoinComma(Tail(s))

\* str(v) of a list of strings
StrList(v) == "[" \o JoinComma(v) \o "]"

-----------------------------------------------------------------------------
(* Reference catalog: rows of table "status" in seeding order *)

StatusSeed ==
    << "created", "reviewed", "discarted", "resolving", "notified",
       "solved", "closed", "deleted", "on_hold", "reopened" >>

StatusIds == 1..Len(StatusSeed)

UnknownStatusId == 99

\* db.query(Status).filter(Status.id == id).first(): the value, "" when no row
StatusValue(id) == IF id \in StatusIds THEN StatusSeed[id] ELSE ""

StatusIdOf(v) == CHOOSE i \in StatusIds : StatusSeed[i] = v

STATUS_TRANSITIONS ==
    [ created   |-> {"reviewed", "notified", "deleted"},
      reviewed  |-> {"notified", "closed", "solved", "deleted"},
      deleted   |-> {"reopened"},
      notified  |-> {"resolving", "deleted"},
      resolving |-> {"on_hold", "closed", "solved", "deleted"},
      on_hold   |-> {"resolving", "closed", "solved", "deleted"},
      closed    |-> {"reopened", "deleted"},
      solved    |-> {"reopened", "deleted"},
      reopened  |-> {"notified", "closed", "solved", "deleted"} ]

\* STATUS_TRANSITIONS.get(from_status, [])
TransitionsGet(from) ==
    IF from \in DOMAIN STATUS_TRANSITIONS THEN STATUS_TRANSITIONS[from] ELSE {}

is_valid_status_transition_lax(from_status_value, to_status_value) ==
    IF from_status_value = "" \/ to_status_value = "" THEN FALSE
    ELSE IF from_status_value = to_status_value THEN TRUE
    ELSE from_status_value \in DOMAIN STATUS_TRANSITIONS

\* every catalog value is lower case already, so .lower() leaves it as it is

is_valid_status_transition(from_status_value, to_status_value) ==
    IF from_status_value = "" \/ to_status_value = "" THEN FALSE
    ELSE IF from_status_value = to_status_value THEN TRUE
    ELSE to_status_value \in TransitionsGet(from_status_value)

-----------------------------------------------------------------------------
(* Ticket ID generator *)

HexChars ==
    << "0", "1", "2", "3", "4", "5", "6", "7",
       "8", "9", "A", "B", "C", "D", "E", "F" >>

Pow16(k) == IF k = 0 THEN 1 ELSE IF k = 1 THEN 16 ELSE IF k = 2 THEN 256
            ELSE IF k = 3 THEN 4096 ELSE IF k = 4 THEN 65536 ELSE 1048576

\* f"{n:06X}" for 0 <= n < 16^6, as a sequence of characters
Hex6(n) == [i \in 1..6 |-> HexChars[((n \div Pow16(6 - i)) % 16) + 1]]

\* the hex parts generate_hex_digits(6) can return, within the bound
HexDraws == {Hex6(n) : n \in 0..MaxHexDraw}

max_attempts == 100

TimestampMod == 1000000

\* time.time() values: early seconds of two consecutive 10^6-second periods
Epochs == (0..MaxEpoch) \cup {TimestampMod + e : e \in 0..MaxEpoch}

PrefixOf(ticket_type) ==
    IF ticket_type = "incidence" THEN <<"I", "N", "C">>
    ELSE IF ticket_type = "suggestion" THEN <<"S", "U", "G">>
    ELSE <<>>

\* IDs are kept as strings; an ID is the concatenation of its characters
IdStr(chars) == JoinStr(chars)

\* the fallback after the loop: prefix + hex of the timestamp
FallbackIds(prefix) == {prefix \o Hex6(e % TimestampMod) : e \in Epochs}

\* the loop when every draw from attempt number `attempts` on collides with a
\* stored ID: it runs out of attempts and falls back to the timestamp.
\* cands are the candidates a draw can give, free those no stored ticket has;
\* a draw can collide only when some candidate is stored.
RECURSIVE CollideFrom(_, _, _, _)
CollideFrom(prefix, cands, free, attempts) ==
    IF attempts < max_attempts
    THEN IF free # cands
         THEN CollideFrom(prefix, cands, free, attempts + 1)
         ELSE {}
    ELSE FallbackIds(prefix)

\* generate_ticket_id(ticket_type, db): the set of possible results (as
\* characters) over all outcomes of the random draws and of the clock;
\* empty when ValueError is raised. A free candidate drawn in any attempt is
\* returned at once.
generate_ticket_id(ticket_type, stored) ==
    LET prefix == PrefixOf(ticket_type)
        cands  == {prefix \o h : h \in HexDraws}
        free   == {c \in cands : IdStr(c) \notin stored}
    IN  IF prefix = <<>> THEN {}
        ELSE free \cup CollideFrom(prefix, cands, free, 0)

-----------------------------------------------------------------------------
(* Requests and responses *)

EmptyFn == [x \in {} |-> 0]

\* a request and its response: the operation, the HTTP status code, which
\* check raised it, the ticket id and the request data; out is what the
\* response carries (the generated ID, the path of the file served)
Response(op, code, err, id, data) ==
    [op |-> op, code |-> code, err |-> err, id |-> id, data |-> data,
     out |-> <<>>]

NoLast == Response("none", 0, "", "", EmptyFn)

Init ==
    /\ tickets = EmptyFn
    /\ mods = <<>>
    /\ files = {}
    /\ dirs = {<<"uploads">>, <<"uploads", "tickets">>}
    /\ now = 0
    /\ hist = EmptyFn
    /\ last = NoLast

\* time passes between two requests
Tick ==
    /\ now < MaxNow
    /\ now' = now + 1
    /\ last' = Response("tick", 0, "", "", EmptyFn)
    /\ UNCHANGED <<tickets, mods, files, dirs, hist>>

-----------------------------------------------------------------------------
(* create_ticket *)

\* ticket_data after the two "handle optional" steps
CreateData(input) ==
    [input EXCEPT
        !.center_id = IF @ = 0 THEN NoneInt ELSE @,
        !.people = IF @ = NonePeople THEN <<>> ELSE @]

NewTicketRowInitial(input, user) ==
    LET d == CreateData(input)
    IN  [ type            |-> d.type,
          title           |-> d.title,
          status_id       |-> StatusIdOf("created"),
          center_id       |-> d.center_id,
          people          |-> d.people,
          creator         |-> user,
          creation_date   |-> DateOf(now),
          modify_date     |-> now,
          resolution_date |-> NoneInt,
          delete_date     |-> NoneInt,
          supports        |-> 0,
          attached        |-> <<>> ]

\* the row db.add(Ticket(id=ticket_id, **ticket_data)) inserts
NewTicketRow(input, user) ==
    LET d == CreateData(input)
    IN  [ type            |-> d.type,
          title           |-> d.title,
          status_id       |-> d.status_id,
          center_id       |-> d.center_id,
          people          |-> d.people,
          creator         |-> user,
          creation_date   |-> DateOf(now),
          modify_date     |-> now,
          resolution_date |-> NoneInt,
          delete_date     |-> NoneInt,
          supports        |-> 0,
          attached        |-> <<>> ]

CreateTicket(input, user) ==
    /\ LET ids == generate_ticket_id(input.type, DOMAIN tickets)
       IN  IF ids = {}
           THEN \* ValueError: invalid ticket type
                /\ last' = Response("create", 500, "invalid_type", "", input)
                /\ UNCHANGED <<tickets, hist>>
           ELSE \E c \in ids :
                  LET id == IdStr(c)
                  IN  IF id \in DOMAIN tickets
                      THEN \* primary key clash at db.commit()
                           /\ last' = [Response("create", 500, "duplicate_id", id, input)
                                         EXCEPT !.out = c]
                           /\ UNCHANGED <<tickets, hist>>
                      ELSE /\ tickets' = tickets @@ (id :> NewTicketRow(input, user))
                           /\ hist' = hist @@ (id :>
                                  IF StatusValue(input.status_id) = "solved"
                                  THEN {"was_solved"} ELSE {})
                           /\ last' = [Response("create", 200, "", id, input)
                                         EXCEPT !.out = c]
    /\ UNCHANGED <<mods, files, dirs, now>>

-----------------------------------------------------------------------------
(* update_ticket *)

\* TicketUpdate fields in declaration order: the order of update_data.items()
FieldOrder == << "type", "title", "status_id", "center_id", "people" >>

\* update_data after the two "handle optional" steps
Normalize(u) ==
    [f \in DOMAIN u |->
        IF f = "center_id" /\ u[f] = 0 THEN NoneInt
        ELSE IF f = "people" /\ u[f] = NonePeople THEN <<>>
        ELSE u[f]]

\* str(value) if value is not None else ""
StrField(f, v) ==
    IF f \in {"status_id", "center_id"} THEN StrInt(v)
    ELSE IF f = "people" THEN StrList(v)
    ELSE v

StatusChanges(row, u) ==
    "status_id" \in DOMAIN u /\ u["status_id"] # row.status_id

\* the status validation block without its transition check
ValidateStatusExistsOnly(row, u) ==
    IF StatusChanges(row, u) /\ StatusValue(u["status_id"]) = ""
    THEN "invalid_status" ELSE "ok"

\* the status validation block: "ok" or the error raised
ValidateStatus(row, u) ==
    IF StatusChanges(row, u)
    THEN LET current_status == StatusValue(row.status_id)
             new_status     == StatusValue(u["status_id"])
         IN  IF new_status = "" THEN "invalid_status"
             ELSE IF current_status # ""
                     /\ ~is_valid_status_transition(current_status, new_status)
                  THEN "invalid_transition"
             ELSE "ok"
    ELSE "ok"

\* the value the status block puts in update_data['resolution_date'], NoneInt
\* when it puts none
AutoResolution(row, u) ==
    IF StatusChanges(row, u) /\ StatusValue(u["status_id"]) = "solved"
    THEN DateOf(now) ELSE NoneInt

\* the value the status block puts in update_data['delete_date'], NoneInt
\* when it puts none
AutoDelete(row, u) ==
    IF StatusChanges(row, u) /\ StatusValue(u["status_id"]) = "deleted"
    THEN DateOf(now) ELSE NoneInt

\* update_data when the loop starts: the submitted fields, the dates of the
\* status block and modify_date
UpdateData(row, u) ==
    LET res == AutoResolution(row, u)
        del == AutoDelete(row, u)
    IN  u @@ (IF res # NoneInt THEN "resolution_date" :> res ELSE EmptyFn)
          @@ (IF del # NoneInt THEN "delete_date" :> del ELSE EmptyFn)
          @@ ("modify_date" :> now)

\* the fields the loop leaves with `continue`, before its setattr
SkippedFields == {"modify_date", "resolution_date", "delete_date"}

\* modify_date has onupdate=datetime.utcnow: it is refreshed by the UPDATE
\* statement, which is emitted only when a column of the row has changed
OnUpdate(row, new) ==
    IF new = row THEN row ELSE [new EXCEPT !.modify_date = now]

\* fields of update_data for which a Modification is added, in loop order
ChangedFieldsAll(row, u) ==
    SelectSeq(FieldOrder, LAMBDA f : f \in DOMAIN u)

ChangedFields(row, u) ==
    SelectSeq(FieldOrder, LAMBDA f : f \in DOMAIN u /\ row[f] # u[f])

\* the Modification rows the loop adds to the session
UpdateMods(ticket_id, row, u, user) ==
    LET cf == ChangedFields(row, u)
    IN  [i \in 1..Len(cf) |->
            [ ticket_id  |-> ticket_id,
              user_id    |-> user,
              date       |-> now,
              reason     |-> "Updated " \o cf[i],
              field_name |-> cf[i],
              old_value  |-> StrField(cf[i], row[cf[i]]),
              new_value  |-> StrField(cf[i], u[cf[i]]) ]]

\* the row after the loop: setattr is reached for the fields not skipped
SetAttr(row, d) ==
    [f \in DOMAIN row |->
        IF f \in DOMAIN d /\ f \notin SkippedFields THEN d[f] ELSE row[f]]

\* the row after the setattr loop and db.commit()
UpdatedRow(row, u) == OnUpdate(row, SetAttr(row, UpdateData(row, u)))

RowOnErrorApplied(row, u) == UpdatedRow(row, u)

\* the stored row when the validation raises: the HTTPException leaves the
\* handler before the setattr loop and before db.commit()
RowOnError(row, u) == row

\* the Modification rows written when the validation raises: none
ModsOnError(ticket_id, row, u, user) == <<>>

HistAfterUpdate(h, row, u) ==
    IF ~StatusChanges(row, u) THEN h
    ELSE IF StatusValue(u["status_id"]) = "solved" THEN h \cup {"was_solved", "upd_solved"}
    ELSE IF StatusValue(u["status_id"]) = "deleted" THEN h \cup {"upd_deleted"}
    ELSE h

\* update_ticket(ticket_id, ticket_update). auditFails: the Modification rows
\* cannot be written, so the one db.commit() of the handler raises
UpdateTicket(ticket_id, data, user, auditFails) ==
    /\ IF ticket_id \notin DOMAIN tickets
       THEN /\ last' = Response("update", 404, "not_found", ticket_id, data)
            /\ UNCHANGED <<tickets, mods, hist>>
       ELSE LET row == tickets[ticket_id]
                u   == Normalize(data)
                v   == ValidateStatus(row, u)
                new == UpdateMods(ticket_id, row, u, user)
            IN  IF v # "ok"
                THEN /\ last' = Response("update", 400, v, ticket_id, data)
                     /\ tickets' = [tickets EXCEPT ![ticket_id] = RowOnError(row, u)]
                     /\ mods' = mods \o ModsOnError(ticket_id, row, u, user)
                     /\ UNCHANGED hist
                ELSE IF auditFails /\ new # <<>>
                THEN \* one transaction: the ticket UPDATE is lost too
                     /\ last' = Response("update", 500, "audit_failed", ticket_id, data)
                     /\ UNCHANGED <<tickets, mods, hist>>
                ELSE /\ tickets' = [tickets EXCEPT ![ticket_id] = UpdatedRow(row, u)]
                     /\ mods' = mods \o new
                     /\ hist' = [hist EXCEPT ![ticket_id] = HistAfterUpdate(@, row, u)]
                     /\ last' = Response("update", 200, "", ticket_id, data)
    /\ UNCHANGED <<files, dirs, now>>

-----------------------------------------------------------------------------
(* delete_ticket *)

DeleteTicket(ticket_id) ==
    /\ IF ticket_id \notin DOMAIN tickets
       THEN /\ last' = Response("delete", 404, "not_found", ticket_id, EmptyFn)
            /\ UNCHANGED <<tickets, hist>>
       ELSE /\ tickets' = [tickets EXCEPT ![ticket_id] =
                              OnUpdate(@, [@ EXCEPT !.delete_date = DateOf(now)])]
            /\ hist' = [hist EXCEPT ![ticket_id] = @ \cup {"soft_deleted"}]
            /\ last' = Response("delete", 200, "", ticket_id, EmptyFn)
    /\ UNCHANGED <<mods, files, dirs, now>>

-----------------------------------------------------------------------------
(* File system: paths are sequences of segments, relative to the working    *)
(* directory of the server.                                                 *)

UPLOADS_DIR == <<"uploads">>

TICKETS_UPLOADS_DIR == UPLOADS_DIR \o <<"tickets">>

IsDir(p) == p = <<>> \/ p \in dirs

Parent(p) == IF p = <<>> THEN <<>> ELSE SubSeq(p, 1, Len(p) - 1)

\* the path the kernel reaches by walking segs from cur; <<"!">> when a
\* component to walk through is not an existing directory
RECURSIVE Walk(_, _)
Walk(cur, segs) ==
    IF segs = <<>> THEN cur
    ELSE IF ~IsDir(cur) THEN <<"!">>
    ELSE IF Head(segs) = ".." THEN Walk(Parent(cur), Tail(segs))
    ELSE IF Head(segs) = "." THEN Walk(cur, Tail(segs))
    ELSE Walk(cur \o <<Head(segs)>>, Tail(segs))

\* os.path.exists(path)
PathExists(path) == Walk(<<>>, path) \in (files \cup dirs)

\* os.makedirs(path, exist_ok=True): path and every ancestor
MakeDirs(path) == {SubSeq(path, 1, k) : k \in 1..Len(path)}

\* datetime.now().strftime("%Y/%m"), as two segments; the model's calendar
\* is sampled at dates that fall in consecutive months
YearMonth(t) ==
    << "Y" \o ToString(DateOf(t) \div 12), "M" \o ToString(DateOf(t) % 12) >>

-----------------------------------------------------------------------------
(* upload_files *)

MAX_FILE_SIZE == 50 * 1024 * 1024

ALLOWED_EXTENSIONS ==
    { ".pdf", ".doc", ".docx", ".txt", ".rtf", ".jpg", ".jpeg", ".png",
      ".gif", ".bmp", ".xls", ".xlsx", ".csv", ".ppt", ".pptx", ".zip",
      ".rar", ".7z", ".tar", ".gz" }

\* an uploaded file is [stem, ext, size]: os.path.splitext(filename) and
\* file.size; the extensions used are lower case. An upload part sent with
\* an empty filename has stem "" and ext ""
FileName(f) == f.stem \o f.ext

RejectedNever(f) == FALSE

\* is the file rejected by the size or the extension validation
Rejected(f) ==
    \/ f.size # 0 /\ f.size > MAX_FILE_SIZE
    \/ FileName(f) # "" /\ f.ext \notin ALLOWED_EXTENSIONS

\* the "error" of the file's entry in failed_uploads, by the check that
\* put it there
FailedError(f) ==
    IF f.size # 0 /\ f.size > MAX_FILE_SIZE THEN "File size exceeds limit"
    ELSE IF FileName(f) # "" /\ f.ext \notin ALLOWED_EXTENSIONS
         THEN "File extension not allowed"
    ELSE "Failed to save file"

\* f"{timestamp}_{uuid.uuid4().hex[:8]}{file_extension}" for draw number k
UniqueFilename(k, f) == "u" \o ToString(k) \o f.ext

\* the storage path below uploads/ of file f of the batch, stored as name
StoragePath(ticket_id, f, name) ==
    <<"tickets", ticket_id, "attachments">> \o YearMonth(now) \o <<name>>

FileRecord(ticket_id, f, name, user) ==
    [ filename      |-> FileName(f),
      original_name |-> FileName(f),
      path          |-> StoragePath(ticket_id, f, name),
      size          |-> f.size,
      uploaded_by   |-> user,
      uploaded_at   |-> now,
      file_type     |-> f.ext,
      ticket_id     |-> ticket_id ]

FilesAfterRollbackKept(fs, written) == fs \cup written

\* the files on disk after the clean-up that follows a failed commit
FilesAfterRollback(fs, written) == fs \ written

UploadModsPerFile(ms, modification, uploaded_files) ==
    ms \o [k \in 1..Len(uploaded_files) |-> modification]

\* table "modifications" after the Modification of the batch is committed
UploadMods(ms, modification, uploaded_files) == Append(ms, modification)

ExtendedFromEmpty(current_attachments, uploaded_files) == uploaded_files

\* current_attachments.extend(uploaded_files), on the list read from the row
Extended(current_attachments, uploaded_files) ==
    current_attachments \o uploaded_files

\* upload_files(ticket_id, files) for a batch; names[i] is the unique name
\* drawn for batch[i]. writeFails: the files of the batch (by position) whose
\* write to disk raises; commitFails: the commit of the attachment list
\* raises; auditFails: the commit of the Modification raises.
UploadFiles(ticket_id, batch, names, user, writeFails, commitFails, auditFails) ==
    /\ IF ticket_id \notin DOMAIN tickets
       THEN /\ last' = Response("upload", 404, "not_found", ticket_id, batch)
            /\ UNCHANGED <<tickets, mods, files, dirs>>
       ELSE IF batch = <<>>
       THEN /\ last' = Response("upload", 400, "no_files", ticket_id, batch)
            /\ UNCHANGED <<tickets, mods, files, dirs>>
       ELSE LET all      == [i \in 1..Len(batch) |-> i]
                valid    == SelectSeq(all, LAMBDA i : ~Rejected(batch[i]))
                idx      == SelectSeq(valid, LAMBDA i : i \notin writeFails)
                bad      == SelectSeq(all, LAMBDA i :
                                Rejected(batch[i]) \/ i \in writeFails)
                uploaded_files ==
                    [k \in 1..Len(idx) |->
                        FileRecord(ticket_id, batch[idx[k]], names[idx[k]], user)]
                failed_uploads ==
                    [k \in 1..Len(bad) |->
                        [ filename |-> FileName(batch[bad[k]]),
                          error    |-> FailedError(batch[bad[k]]) ]]
                written  == {UPLOADS_DIR \o uploaded_files[k].path :
                                k \in 1..Len(uploaded_files)}
                made     == IF valid = <<>> THEN {}
                            ELSE MakeDirs(TICKETS_UPLOADS_DIR
                                    \o <<ticket_id, "attachments">> \o YearMonth(now))
                old_attachments == tickets[ticket_id].attached
                current_attachments == Extended(old_attachments, uploaded_files)
                modification ==
                    [ ticket_id  |-> ticket_id,
                      user_id    |-> user,
                      date       |-> now,
                      reason     |-> "Files uploaded",
                      field_name |-> "attached",
                      old_value  |-> ToString(Len(old_attachments)),
                      new_value  |-> ToString(Len(current_attachments)) ]
                result   == [uploaded |-> uploaded_files, failed |-> failed_uploads]
            IN  /\ dirs' = dirs \cup made
                /\ IF uploaded_files = <<>>
                   THEN /\ last' = [Response("upload", 200, "", ticket_id, batch)
                                       EXCEPT !.out = result]
                        /\ UNCHANGED <<tickets, mods, files>>
                   ELSE IF commitFails
                   THEN \* db.rollback(), the written files are removed
                        /\ last' = [Response("upload", 500, "commit_failed",
                                             ticket_id, batch)
                                       EXCEPT !.out = result]
                        /\ files' = FilesAfterRollback(files \cup written, written)
                        /\ UNCHANGED <<tickets, mods>>
                   ELSE /\ tickets' = [tickets EXCEPT
                               ![ticket_id].attached = current_attachments,
                               ![ticket_id].modify_date = now]
                        /\ files' = files \cup written
                        /\ mods' = IF auditFails THEN mods
                                   ELSE UploadMods(mods, modification, uploaded_files)
                        /\ last' = [Response("upload", 200,
                                        IF auditFails THEN "audit_failed" ELSE "",
                                        ticket_id, batch)
                                       EXCEPT !.out = result]
    /\ UNCHANGED <<now, hist>>

-----------------------------------------------------------------------------
(* view_attachment, download_attachment *)

\* file_path.startswith(f"tickets/{ticket_id}/")
Owned(ticket_id, file_path) ==
    /\ Len(file_path) >= 3
    /\ file_path[1] = "tickets" /\ file_path[2] = ticket_id

\* both accessors up to the FileResponse; op is "view" or "download"
ServeAttachment(op, ticket_id, file_path) ==
    LET full_path == UPLOADS_DIR \o file_path
    IN  /\ last' =
              IF ticket_id \notin DOMAIN tickets
              THEN Response(op, 404, "not_found", ticket_id, file_path)
              ELSE IF ~PathExists(full_path)
              THEN Response(op, 404, "file_not_found", ticket_id, file_path)
              ELSE IF ~Owned(ticket_id, file_path)
              THEN Response(op, 403, "access_denied", ticket_id, file_path)
              ELSE IF Walk(<<>>, full_path) \notin files
              THEN \* FileResponse of a directory
                   Response(op, 500, "not_a_file", ticket_id, file_path)
              ELSE [Response(op, 200, "", ticket_id, file_path)
                       EXCEPT !.out = Walk(<<>>, full_path)]
        /\ UNCHANGED <<tickets, mods, files, dirs, now, hist>>

view_attachment(ticket_id, file_path) == ServeAttachment("view", ticket_id, file_path)

download_attachment(ticket_id, file_path) ==
    ServeAttachment("download", ticket_id, file_path)

-----------------------------------------------------------------------------
(* delete_attachment, cleanup_empty_directories *)

\* a path as the string the attachment record holds: "/".join(segments)
RECURSIVE PathStr(_)
PathStr(p) ==
    IF p = <<>> THEN ""
    ELSE IF Len(p) = 1 THEN Head(p)
    ELSE Head(p) \o "/" \o PathStr(Tail(p))

HexDigits ==
    << "0", "1", "2", "3", "4", "5", "6", "7", "8", "9",
       "A", "B", "C", "D", "E", "F", "a", "b", "c", "d", "e", "f" >>

IsHexDigit(c) == \E i \in 1..Len(HexDigits) : HexDigits[i] = c

HexVal(c) ==
    LET i == CHOOSE j \in 1..Len(HexDigits) : HexDigits[j] = c
    IN  IF i <= 16 THEN i - 1 ELSE i - 7

\* the printable ASCII characters, from 0x20 to 0x7E (the double quote, the
\* backslash and the backquote are written by their codes)
Ascii ==
    << " ", "!", "<34>", "#", "$", "%", "&", "'", "(", ")", "*", "+", ",", "-",
       ".", "/", "0", "1", "2", "3", "4", "5", "6", "7", "8", "9", ":", ";",
       "<", "=", ">", "?", "@", "A", "B", "C", "D", "E", "F", "G", "H", "I",
       "J", "K", "L", "M", "N", "O", "P", "Q", "R", "S", "T", "U", "V", "W",
       "X", "Y", "Z", "[", "<92>", "]", "^", "_", "<96>", "a", "b", "c", "d", "e",
       "f", "g", "h", "i", "j", "k", "l", "m", "n", "o", "p", "q", "r", "s",
       "t", "u", "v", "w", "x", "y", "z", "{", "|", "}", "~" >>

\* the character a decoded byte stands for; a byte outside printable ASCII
\* is kept as a piece of its own
ByteChar(n) ==
    IF n >= 32 /\ n <= 126 THEN Ascii[n - 31] ELSE "<" \o ToString(n) \o ">"

\* urllib.parse.unquote(s). A string is given in pieces: "%" and the two
\* characters after it are pieces of their own, the other pieces hold no "%"
RECURSIVE unquote(_)
unquote(s) ==
    IF s = <<>> THEN <<>>
    ELSE IF Head(s) = "%" /\ Len(s) >= 3
            /\ IsHexDigit(s[2]) /\ IsHexDigit(s[3])
         THEN <<ByteChar(16 * HexVal(s[2]) + HexVal(s[3]))>>
                  \o unquote(SubSeq(s, 4, Len(s)))
    ELSE <<Head(s)>> \o unquote(Tail(s))

\* the first loop: index of the first attachment with that path, 0 if none
FindByPath(atts, key) ==
    LET hit == {k \in 1..Len(atts) : PathStr(atts[k].path) = key}
    IN  IF hit = {} THEN 0 ELSE CHOOSE k \in hit : \A j \in hit : k <= j

\* the fallback loop: index of the first attachment with that original_name
FindByName(atts, key) ==
    LET hit == {k \in 1..Len(atts) : atts[k].original_name = key}
    IN  IF hit = {} THEN 0 ELSE CHOOSE k \in hit : \A j \in hit : k <= j

FindAttachmentNameFirst(atts, key) ==
    IF FindByName(atts, key) # 0 THEN FindByName(atts, key)
    ELSE FindByPath(atts, key)

\* attachment_to_remove, as its index in the list; 0 for None
FindAttachment(atts, key) ==
    IF FindByPath(atts, key) # 0 THEN FindByPath(atts, key)
    ELSE FindByName(atts, key)

\* list.remove(x): the list without its first element equal to x
ListRemove(atts, x) ==
    LET k == CHOOSE i \in 1..Len(atts) :
                 atts[i] = x /\ \A j \in 1..(i - 1) : atts[j] # x
    IN  SubSeq(atts, 1, k - 1) \o SubSeq(atts, k + 1, Len(atts))

\* os.listdir(d) is empty
DirEmpty(d, fs, ds) == \A q \in fs \cup ds : Parent(q) # d \/ q = <<>>

\* current_dir.startswith(os.path.join(UPLOADS_DIR, "tickets")), for paths
\* whose segments are those of stored attachments
StartsWithTickets(d) ==
    Len(d) >= 2 /\ SubSeq(d, 1, 2) = TICKETS_UPLOADS_DIR

\* the while loop of cleanup_empty_directories from current_dir upwards:
\* the directories left
AtTicketRootNever(current_dir, ticket_id) == FALSE

\* the negation of the loop condition:
\* current_dir == os.path.join(UPLOADS_DIR, "tickets", ticket_id)
AtTicketRoot(current_dir, ticket_id) ==
    current_dir = UPLOADS_DIR \o <<"tickets", ticket_id>>

RECURSIVE CleanupFrom(_, _, _, _)
CleanupFrom(current_dir, ticket_id, fs, ds) ==
    IF AtTicketRoot(current_dir, ticket_id) THEN ds
    ELSE IF current_dir \in ds /\ ~DirEmpty(current_dir, fs, ds) THEN ds
    ELSE LET left == ds \ {current_dir}
             up   == Parent(current_dir)
         IN  IF ~StartsWithTickets(up) THEN left
             ELSE CleanupFrom(up, ticket_id, fs, left)

cleanup_empty_directories_skipped(ticket_id, file_path, fs, ds) == ds

\* cleanup_empty_directories(ticket_id, file_path): the directories left
cleanup_empty_directories(ticket_id, file_path, fs, ds) ==
    IF Len(file_path) >= 5
    THEN CleanupFrom(UPLOADS_DIR \o Parent(file_path), ticket_id, fs, ds)
    ELSE ds

\* delete_attachment(ticket_id, filename). removeFails: os.remove raises
\* OSError; commitFails: the commit of the attachment list raises;
\* auditFails: the commit of the Modification raises.
delete_attachment(ticket_id, filename, user, removeFails, commitFails, auditFails) ==
    LET decoded_filename == JoinStr(unquote(filename))
    IN
    /\ IF ticket_id \notin DOMAIN tickets
       THEN /\ last' = Response("remove", 404, "not_found", ticket_id, filename)
            /\ UNCHANGED <<tickets, mods, files, dirs>>
       ELSE LET current_attachments == tickets[ticket_id].attached
                k == FindAttachment(current_attachments, decoded_filename)
            IN  IF k = 0
                THEN /\ last' = Response("remove", 404, "attachment_not_found",
                                         ticket_id, filename)
                     /\ UNCHANGED <<tickets, mods, files, dirs>>
                ELSE LET attachment_to_remove == current_attachments[k]
                         file_path == UPLOADS_DIR \o attachment_to_remove.path
                         on_disk   == PathExists(file_path)
                         left      == files \ {Walk(<<>>, file_path)}
                         remaining == ListRemove(current_attachments,
                                                 attachment_to_remove)
                         modification ==
                             [ ticket_id  |-> ticket_id,
                               user_id    |-> user,
                               date       |-> now,
                               reason     |-> "File deleted",
                               field_name |-> "attached",
                               old_value  |-> ToString(Len(remaining) + 1),
                               new_value  |-> ToString(Len(remaining)) ]
                     IN  IF on_disk /\ removeFails
                         THEN /\ last' = Response("remove", 500, "remove_failed",
                                                  ticket_id, filename)
                              /\ UNCHANGED <<tickets, mods, files, dirs>>
                         ELSE IF commitFails
                         THEN \* db.rollback(): the file is gone, its record stays
                              /\ last' = Response("remove", 500, "commit_failed",
                                                  ticket_id, filename)
                              /\ files' = left
                              /\ UNCHANGED <<tickets, mods, dirs>>
                         ELSE /\ files' = left
                              /\ tickets' = [tickets EXCEPT
                                     ![ticket_id].attached = remaining,
                                     ![ticket_id].modify_date = now]
                              /\ mods' = IF auditFails THEN mods
                                         ELSE Append(mods, modification)
                              /\ dirs' = cleanup_empty_directories(ticket_id,
                                             attachment_to_remove.path, left, dirs)
                              /\ last' = [Response("remove", 200,
                                              IF auditFails THEN "audit_failed" ELSE "",
                                              ticket_id, filename)
                                            EXCEPT !.out = <<k>>]
    /\ UNCHANGED <<now, hist>>

-----------------------------------------------------------------------------
(* create_modification *)

\* None in an Optional[str] position
NoneStr == "<None>"

ModsAfterRecordReplace(ms, row) ==
    IF ms = <<>> THEN <<row>> ELSE [ms EXCEPT ![Len(ms)] = row]

\* db.add(db_modification); db.commit(): table "modifications" afterwards
ModsAfterRecord(ms, row) == Append(ms, row)

\* create_modification(modification): modification is a ModificationCreate
create_modification(modification, user) ==
    /\ IF modification.ticket_id \notin DOMAIN tickets
       THEN /\ last' = Response("record", 404, "not_found",
                                modification.ticket_id, modification)
            /\ UNCHANGED mods
       ELSE /\ mods' = ModsAfterRecord(mods,
                          [ ticket_id  |-> modification.ticket_id,
                            user_id    |-> user,
                            date       |-> now,
                            reason     |-> modification.reason,
                            field_name |-> modification.field_name,
                            old_value  |-> modification.old_value,
                            new_value  |-> modification.new_value ])
            /\ last' = Response("record", 200, "", modification.ticket_id,
                                modification)
    /\ UNCHANGED <<tickets, files, dirs, now, hist>>

-----------------------------------------------------------------------------
(* get_ticket_modifications, get_change_description *)

\* column desc of the tables status, crit and center as seeded, by row id;
\* no row of table tool is seeded
StatusDesc ==
    << "Creada", "Revisada", "Descartada", "En resolució", "Notificada",
       "Resolta", "Tancada", "Eliminada", "Aturada", "Reoberta" >>

CritDesc == << "Baixa", "Mitja", "Alta", "Crítica" >>

CenterDesc ==
    << "EAP St. Andreu de Llavaneres", "EAP Arenys de Mar",
       "EAP Mataró- 3 (Perú)", "EAP Mataró- 1 (La Riera)",
       "EAP Mataró- 7 (Ronda Prim)" >>

ToolDesc == << >>

\* db.query(T).filter(T.id == id).first(), as the desc of the row; "" when
\* there is no such row
CatalogDesc(rows, id) == IF id \in 1..Len(rows) THEN rows[id] ELSE ""

ValueError == 0 - 1

\* int(s), for strings that are the decimal form of a natural number or hold
\* no number at all; ValueError when Python raises it
int(s) ==
    IF \E n \in 0..(UnknownStatusId + 1) : ToString(n) = s
    THEN CHOOSE n \in 0..(UnknownStatusId + 1) : ToString(n) = s
    ELSE ValueError

field_descriptions ==
    ("ticket_num" :> "El número de ticket") @@ ("type" :> "El tipus")
      @@ ("title" :> "El títol") @@ ("description" :> "La descripció")
      @@ ("url" :> "La URL") @@ ("status_id" :> "L'estat")
      @@ ("crit_id" :> "La prioritat") @@ ("center_id" :> "El centre")
      @@ ("tool_id" :> "L'eina") @@ ("notifier" :> "El notificador")
      @@ ("people" :> "Les persones implicades")
      @@ ("pathway" :> "La via de creació") @@ ("attached" :> "Els adjunts")

pathway_labels ==
    ("web" :> "Web") @@ ("mobile" :> "Mòbil") @@ ("email" :> "Email")
      @@ ("phone" :> "Telèfon") @@ ("in_person" :> "En persona")

\* d.get(key, default)
DictGet(d, key, default) == IF key \in DOMAIN d THEN d[key] ELSE default

\* a value as an f-string prints it
Fmt(v) == IF v = NoneStr THEN "None" ELSE v

\* the outcome of a call that raises ValueError
Raised == "<ValueError>"

\* the fallback sentence: bare field name (or its label) and raw value
Fallback(field_name, new_value) ==
    DictGet(field_descriptions, field_name, field_name)
        \o " s'ha canviat per " \o Fmt(new_value)

\* the branch of a reference field: the sentence with the desc of the row
\* int(new_value), the removal sentence for "0" when the field has one, the
\* fallback otherwise
Referenced(rows, sentence, removed, field_name, new_value) ==
    IF int(new_value) = ValueError THEN Raised
    ELSE IF CatalogDesc(rows, int(new_value)) # ""
    THEN sentence \o CatalogDesc(rows, int(new_value))
    ELSE IF removed # "" /\ new_value = "0" THEN removed
    ELSE Fallback(field_name, new_value)

\* get_change_description(field_name, new_value, db): the text, or Raised
get_change_description(field_name, new_value) ==
    LET truthy == new_value # NoneStr /\ new_value # ""
    IN  IF field_name = "status_id" /\ truthy
        THEN Referenced(StatusDesc, "L'estat s'ha canviat per ", "",
                        field_name, new_value)
        ELSE IF field_name = "crit_id" /\ truthy
        THEN Referenced(CritDesc, "La prioritat ha passat a ser ", "",
                        field_name, new_value)
        ELSE IF field_name = "center_id" /\ truthy
        THEN Referenced(CenterDesc, "El centre s'ha canviat per ",
                        "S'ha eliminat el centre", field_name, new_value)
        ELSE IF field_name = "tool_id" /\ truthy
        THEN Referenced(ToolDesc, "L'eina s'ha canviat per ",
                        "S'ha eliminat l'eina", field_name, new_value)
        ELSE IF field_name = "type" /\ truthy
        THEN "El tipus s'ha canviat per "
                 \o (IF new_value = "incidence" THEN "Incidència"
                     ELSE "Suggeriment")
        ELSE IF field_name = "title" /\ truthy
        THEN "El títol s'ha canviat per <34>" \o new_value \o "<34>"
        ELSE IF field_name = "description" /\ truthy
        THEN "La descripció s'ha actualitzat"
        ELSE IF field_name = "ticket_num" /\ truthy
        THEN "El número de ticket s'ha canviat per " \o new_value
        ELSE IF field_name = "url" /\ truthy
        THEN "La URL s'ha canviat per " \o new_value
        ELSE IF field_name = "notifier" /\ truthy
        THEN "El notificador s'ha canviat per " \o new_value
        ELSE IF field_name = "people" /\ truthy
        THEN "Les persones implicades s'han actualitzat"
        ELSE IF field_name = "pathway" /\ truthy
        THEN "La via de creació s'ha canviat per "
                 \o DictGet(pathway_labels, new_value, new_value)
        ELSE IF field_name = "attached"
        THEN IF truthy /\ int(new_value) = ValueError
             THEN "Els adjunts s'han actualitzat"
             ELSE "Els adjunts s'han actualitzat ("
                      \o ToString(IF truthy THEN int(new_value) ELSE 0)
                      \o " fitxer(s))"
        ELSE Fallback(field_name, new_value)

Abs(x) == IF x < 0 THEN 0 - x ELSE x

SameGroupStrict(date, anchor) == Abs(date - anchor) < TicksPerSecond

\* the negation of the test that starts a group:
\* abs((mod.date - current_group['date']).total_seconds()) > 1
SameGroup(date, anchor) == ~(Abs(date - anchor) > TicksPerSecond)

\* the rows of table "modifications" of the ticket, by their position
RowsOf(ticket_id) == {k \in 1..Len(mods) : mods[k].ticket_id = ticket_id}

\* order_by(Modification.date.desc()): the rows newest first; rows of equal
\* date come in an order the query does not fix
Orders(rows) ==
    {o \in [1..Cardinality(rows) -> rows] :
        /\ \A i, j \in 1..Cardinality(rows) : i # j => o[i] # o[j]
        /\ \A i, j \in 1..Cardinality(rows) :
             i < j => mods[o[i]].date >= mods[o[j]].date}

\* what the row adds to the changes of its group
ChangeOf(k) ==
    IF mods[k].field_name # NoneStr /\ mods[k].field_name # ""
    THEN get_change_description(mods[k].field_name, mods[k].new_value)
    ELSE mods[k].reason

\* the loop over modifications: grouped_modifications after the rows of
\* order; a group lists its rows next to the changes they added
RECURSIVE GroupRows(_, _)
GroupRows(order, grouped) ==
    IF order = <<>> THEN grouped
    ELSE LET k     == Head(order)
             n     == Len(grouped)
             fresh == n = 0 \/ ~SameGroup(mods[k].date, grouped[n].date)
             group == IF fresh
                      THEN [ id |-> k, user_id |-> mods[k].user_id,
                             date |-> mods[k].date, rows |-> <<>>,
                             changes |-> <<>> ]
                      ELSE grouped[n]
             added == [group EXCEPT !.rows = Append(@, k),
                                    !.changes = Append(@, ChangeOf(k))]
         IN  GroupRows(Tail(order),
                       IF fresh THEN Append(grouped, added)
                       ELSE [grouped EXCEPT ![n] = added])

\* get_ticket_modifications(ticket_id)
get_ticket_modifications(ticket_id) ==
    /\ IF ticket_id \notin DOMAIN tickets
       THEN last' = Response("list", 404, "not_found", ticket_id, EmptyFn)
       ELSE \E order \in Orders(RowsOf(ticket_id)) :
              IF \E i \in 1..Len(order) : ChangeOf(order[i]) = Raised
              THEN \* the ValueError leaves the handler
                   last' = Response("list", 500, "value_error", ticket_id, EmptyFn)
              ELSE last' = [Response("list", 200, "", ticket_id, EmptyFn)
                              EXCEPT !.out = GroupRows(order, <<>>)]
    /\ UNCHANGED <<tickets, mods, files, dirs, now, hist>>

-----------------------------------------------------------------------------
(* is_valid_ticket_id, get_ticket_type_from_id *)

\* s.strip(), for strings whose only whitespace is the space
RECURSIVE LStrip(_)
LStrip(s) == IF s # <<>> /\ Head(s) = " " THEN LStrip(Tail(s)) ELSE s

RECURSIVE RStrip(_)
RStrip(s) ==
    IF s # <<>> /\ s[Len(s)] = " " THEN RStrip(SubSeq(s, 1, Len(s) - 1)) ELSE s

\* does int(s, 16) return (TRUE) or raise ValueError (FALSE), s a sequence
\* of characters: surrounding whitespace, then an optional sign, then an
\* optional 0x or 0X, then hex digits that single underscores may separate
\* (one may also follow the 0x)
IntBase16Parses(s) ==
    LET t   == RStrip(LStrip(s))
        u   == IF t # <<>> /\ Head(t) \in {"+", "-"} THEN Tail(t) ELSE t
        has == Len(u) >= 2 /\ u[1] = "0" /\ u[2] \in {"x", "X"}
        v   == IF has THEN SubSeq(u, 3, Len(u)) ELSE u
        w   == IF has /\ v # <<>> /\ Head(v) = "_" THEN Tail(v) ELSE v
    IN  /\ w # <<>>
        /\ IsHexDigit(w[1]) /\ IsHexDigit(w[Len(w)])
        /\ \A i \in 1..Len(w) : w[i] = "_" \/ IsHexDigit(w[i])
        /\ \A i \in 1..(Len(w) - 1) : ~(w[i] = "_" /\ w[i + 1] = "_")

\* is_valid_ticket_id(ticket_id), ticket_id a sequence of characters
is_valid_ticket_id(ticket_id) ==
    IF ticket_id = <<>> \/ Len(ticket_id) # 9 THEN FALSE
    ELSE IF SubSeq(ticket_id, 1, 3) \notin {<<"I", "N", "C">>, <<"S", "U", "G">>}
    THEN FALSE
    ELSE IntBase16Parses(SubSeq(ticket_id, 4, Len(ticket_id)))

\* get_ticket_type_from_id(ticket_id): the type, or Raised
get_ticket_type_from_id(ticket_id) ==
    IF ~is_valid_ticket_id(ticket_id) THEN Raised
    ELSE IF SubSeq(ticket_id, 1, 3) = <<"I", "N", "C">> THEN "incidence"
    ELSE IF SubSeq(ticket_id, 1, 3) = <<"S", "U", "G">> THEN "suggestion"
    ELSE Raised

-----------------------------------------------------------------------------
(* Spec: the life of one ticket, with its dates. Requests: create with a    *)
(* status of the caller's choice, status updates, soft delete; time passes. *)

AbsentId == "INCFFFFFF"

Targets == DOMAIN tickets \cup {AbsentId}

LifeStatusIds ==
    {StatusIdOf(v) : v \in {"created", "solved", "deleted", "reopened"}}

LifeCreateInputs ==
    [ type : {"incidence"}, title : {"t1"}, status_id : LifeStatusIds,
      center_id : {0}, people : {NonePeople} ]

LifeUpdates == {[status_id |-> s] : s \in LifeStatusIds}

LifeCreate ==
    /\ tickets = EmptyFn
    /\ \E input \in LifeCreateInputs : CreateTicket(input, 1)

LifeUpdate ==
    /\ \E id \in Targets, data \in LifeUpdates : UpdateTicket(id, data, 1, FALSE)
    /\ Len(mods') <= MaxMods

LifeDelete == \E id \in Targets : DeleteTicket(id)

Next == Tick \/ LifeCreate \/ LifeUpdate \/ LifeDelete

Spec == Init /\ [][Next]_vars

-----------------------------------------------------------------------------
(* SpecStatus: the status state machine of one ticket. It is created in any *)
(* status and every status id, known or not, is requested of it and of an   *)
(* absent ticket.                                                           *)

StatusCreateInputs ==
    [ type : {"incidence", "suggestion", "question"}, title : {"t1"},
      status_id : StatusIds \cup {UnknownStatusId},
      center_id : {0}, people : {NonePeople} ]

StatusUpdates == {[status_id |-> s] : s \in StatusIds \cup {UnknownStatusId}}

StatusCreate ==
    /\ tickets = EmptyFn
    /\ \E input \in StatusCreateInputs : CreateTicket(input, 1)

StatusUpdate ==
    /\ \E id \in Targets, data \in StatusUpdates : UpdateTicket(id, data, 1, FALSE)
    /\ Len(mods') <= MaxStatusMods

NextStatus == StatusCreate \/ StatusUpdate

SpecStatus == Init /\ [][NextStatus]_vars

-----------------------------------------------------------------------------
(* SpecFields: field updates of one ticket and their audit trail. Updates   *)
(* submit any subset shape of the fields, with values equal to or different *)
(* from the stored ones; the Modification write may fail.                   *)

FieldCreateInputs ==
    [ type : {"incidence"}, title : {"t1"}, status_id : {StatusIdOf("created")},
      center_id : {0, 1}, people : {NonePeople} ]

TitleValues == {"t1", "t2"}
CenterValues == {0, 1}
PeopleValues == {NonePeople, <<"ana">>}
FieldStatusIds == {StatusIdOf("created"), StatusIdOf("reviewed")}

FieldUpdates ==
    {EmptyFn}
        \cup {[title |-> t] : t \in TitleValues}
        \cup {[center_id |-> c] : c \in CenterValues}
        \cup {[people |-> q] : q \in PeopleValues}
        \cup {[status_id |-> x] : x \in FieldStatusIds}
        \cup {[type |-> y] : y \in {"incidence", "suggestion"}}
        \cup {[title |-> t, status_id |-> x] : t \in TitleValues, x \in FieldStatusIds}
        \cup {[title |-> t, center_id |-> c, people |-> q] :
                 t \in TitleValues, c \in CenterValues, q \in PeopleValues}

FieldCreate ==
    /\ tickets = EmptyFn
    /\ \E input \in FieldCreateInputs : CreateTicket(input, 1)

FieldUpdate ==
    /\ \E id \in Targets, data \in FieldUpdates, auditFails \in BOOLEAN :
           UpdateTicket(id, data, 1, auditFails)
    /\ Len(mods') <= MaxFieldMods

NextFields == FieldCreate \/ FieldUpdate

SpecFields == Init /\ [][NextFields]_vars

-----------------------------------------------------------------------------
(* SpecGen: the ID generator against a growing table. Tickets of both types *)
(* are created until the candidates of a prefix are used up.                *)

GenCreateInputs ==
    [ type : {"incidence", "suggestion", "question"}, title : {"t1"},
      status_id : {StatusIdOf("created")}, center_id : {0, 1},
      people : {NonePeople} ]

GenCreate ==
    /\ Cardinality(DOMAIN tickets) < MaxGenTickets
    /\ \E input \in GenCreateInputs : CreateTicket(input, 1)

NextGen == GenCreate

SpecGen == Init /\ [][NextGen]_vars

-----------------------------------------------------------------------------
(* SpecFiles: attachments of up to two tickets. Files are uploaded one at a *)
(* time and read back through both accessors, by their stored path and by   *)
(* paths that reach the same files through ".." segments.                   *)

FileCreateInputs ==
    [ type : {"incidence", "suggestion"}, title : {"t1"},
      status_id : {StatusIdOf("created")}, center_id : {0},
      people : {NonePeople} ]

UploadSamples ==
    { [stem |-> "a", ext |-> ".pdf", size |-> 10],
      [stem |-> "b", ext |-> ".exe", size |-> 10],
      [stem |-> "c", ext |-> ".png", size |-> MAX_FILE_SIZE + 1] }

NameDraws == 1..MaxNames

\* the stored paths of every ticket's attachments
\* request paths: a stored path, or one that climbs out of a ticket's
\* directory with ".." and goes down into a stored path
RequestPaths ==
    LET stored == UNION {{tickets[t].attached[k].path :
                             k \in 1..Len(tickets[t].attached)} :
                         t \in DOMAIN tickets}
    IN  stored
          \cup {<<"tickets", t, "..">> \o SubSeq(q, 2, Len(q)) :
                   t \in DOMAIN tickets, q \in stored}
          \cup {<<"tickets", t, "attachments">> : t \in DOMAIN tickets}

FileCreate ==
    /\ Cardinality(DOMAIN tickets) < MaxFileTickets
    /\ \E input \in FileCreateInputs : CreateTicket(input, 1)

FileUpload ==
    /\ \E id \in Targets, f \in UploadSamples, k \in NameDraws,
          commitFails \in BOOLEAN, auditFails \in BOOLEAN :
           /\ \A p \in files : p[Len(p)] # UniqueFilename(k, f)
           /\ UploadFiles(id, <<f>>, <<UniqueFilename(k, f)>>, 1, {},
                          commitFails, auditFails)
    /\ Len(mods') <= MaxFileMods

FileView ==
    \E id \in Targets, q \in RequestPaths : view_attachment(id, q)

FileDownload ==
    \E id \in Targets, q \in RequestPaths : download_attachment(id, q)

NextFiles == FileCreate \/ FileUpload \/ FileView \/ FileDownload

SpecFiles == Init /\ [][NextFiles]_vars

-----------------------------------------------------------------------------
(* SpecTrail: the audit trail of one ticket under every operation that      *)
(* writes it: field updates, uploads, removals and recorded notes, next to  *)
(* create and soft delete, with the failures of each commit.                *)

TrailCreateInputs ==
    [ type : {"incidence"}, title : {"t1"}, status_id : {StatusIdOf("created")},
      center_id : {0}, people : {NonePeople} ]

TrailUpdates == { [title |-> "t1"], [title |-> "t2"] }

TrailSamples == { [stem |-> "a", ext |-> ".pdf", size |-> 10] }

\* the strings a stored attachment can be asked for by: its path, its name
StoredKeys(ticket_id) ==
    IF ticket_id \notin DOMAIN tickets THEN {}
    ELSE LET atts == tickets[ticket_id].attached
         IN  {<<PathStr(atts[k].path)>> : k \in 1..Len(atts)}
               \cup {<<atts[k].original_name>> : k \in 1..Len(atts)}

TrailNotes ==
    [ ticket_id : Targets, reason : {"note"}, field_name : {NoneStr},
      old_value : {NoneStr}, new_value : {NoneStr} ]

\* the ID a ticket of type incidence gets when the first draw is 000000
FirstId == IdStr(PrefixOf("incidence") \o Hex6(0))

TrailCreate ==
    /\ tickets = EmptyFn
    /\ \E input \in TrailCreateInputs : CreateTicket(input, 1)
    /\ last'.id = FirstId

TrailUpdate ==
    /\ \E id \in Targets, data \in TrailUpdates, auditFails \in BOOLEAN :
           UpdateTicket(id, data, 1, auditFails)
    /\ Len(mods') <= MaxTrailMods

TrailDelete == \E id \in Targets : DeleteTicket(id)

TrailUpload ==
    /\ \E id \in Targets, f \in TrailSamples, k \in NameDraws,
          commitFails \in BOOLEAN, auditFails \in BOOLEAN :
           /\ \A p \in files : p[Len(p)] # UniqueFilename(k, f)
           /\ id \in DOMAIN tickets => tickets[id].attached = <<>>
           /\ UploadFiles(id, <<f>>, <<UniqueFilename(k, f)>>, 1, {},
                          commitFails, auditFails)
    /\ Len(mods') <= MaxTrailMods

TrailRemove ==
    /\ \E id \in Targets, commitFails \in BOOLEAN, auditFails \in BOOLEAN :
         \E key \in StoredKeys(id) \cup {<<"zz">>} :
           delete_attachment(id, key, 1, FALSE, commitFails, auditFails)
    /\ Len(mods') <= MaxTrailMods

TrailRecord ==
    /\ \E m \in TrailNotes : create_modification(m, 2)
    /\ Len(mods') <= MaxTrailMods

NextTrail ==
    TrailCreate \/ TrailUpdate \/ TrailDelete \/ TrailUpload \/ TrailRemove
        \/ TrailRecord

SpecTrail == Init /\ [][NextTrail]_vars

-----------------------------------------------------------------------------
(* SpecBatch: batch uploads to one ticket. A batch holds one or two files,  *)
(* valid, oversized, of a refused extension or unnamed; a write to disk,    *)
(* the commit of the attachment list and the commit of the Modification may *)
(* each fail.                                                               *)

BatchSamples ==
    { [stem |-> "a", ext |-> ".pdf", size |-> 10],
      [stem |-> "b", ext |-> ".exe", size |-> 10],
      [stem |-> "c", ext |-> ".png", size |-> MAX_FILE_SIZE + 1],
      [stem |-> "", ext |-> "", size |-> 10] }

ValidSample == [stem |-> "a", ext |-> ".pdf", size |-> 10]

\* one file, or a valid file with any file before or after it
Batches ==
    {<<f>> : f \in BatchSamples}
        \cup {<<f, ValidSample>> : f \in BatchSamples}
        \cup {<<ValidSample, f>> : f \in BatchSamples}

\* what goes wrong during a request: nothing, the write of the first file,
\* the commit of the attachment list or the commit of the Modification
Faults == {"none", "write", "commit", "audit"}

\* the draws of unique names for a batch: one draw for each file
BatchDraws(batch) ==
    IF Len(batch) = 1 THEN {<<k>> : k \in NameDraws}
    ELSE UNION {{<<k, j>> : j \in NameDraws \ {k}} : k \in NameDraws}

NamesDrawn(batch, draws) ==
    [i \in 1..Len(batch) |-> UniqueFilename(draws[i], batch[i])]

\* the names drawn are those of no file on disk
NamesFresh(names) ==
    \A i \in 1..Len(names) : \A p \in files : p[Len(p)] # names[i]

\* a unique name is a fresh name and nothing else: of the fresh draws the
\* model takes the least ones
LeastDraws(batch) ==
    LET fresh == {d \in BatchDraws(batch) : NamesFresh(NamesDrawn(batch, d))}
        before(d, e) ==
            \/ d[1] < e[1]
            \/ d[1] = e[1] /\ Len(d) = 2 /\ d[2] <= e[2]
            \/ d = e
    IN  {d \in fresh : \A e \in fresh : before(d, e)}

BatchCreate ==
    /\ tickets = EmptyFn
    /\ \E input \in TrailCreateInputs : CreateTicket(input, 1)
    /\ last'.id = FirstId

BatchUpload ==
    /\ \E id \in Targets, batch \in Batches \cup {<<>>}, fault \in Faults :
         \E draws \in (IF batch = <<>> THEN {<<>>} ELSE LeastDraws(batch)) :
           /\ UploadFiles(id, batch, NamesDrawn(batch, draws), 1,
                          IF fault = "write" THEN {1} ELSE {},
                          fault = "commit", fault = "audit")
    /\ Len(mods') <= MaxBatchMods
    /\ \A id \in DOMAIN tickets' : Len(tickets'[id].attached) <= MaxAttached

NextBatch == BatchCreate \/ BatchUpload

SpecBatch == Init /\ [][NextBatch]_vars

-----------------------------------------------------------------------------
(* SpecRemove: removal of attachments of one ticket. Files are uploaded     *)
(* under plain names, under a name with a percent escape and under a name   *)
(* that reads like a stored path; attachments are asked for by path, by     *)
(* name, by escaped forms and by a string that matches nothing.             *)

\* the path string of the attachment stored for ValidSample under draw 1,
\* and the same without its extension
FirstPath ==
    PathStr(<<"tickets", FirstId, "attachments">> \o YearMonth(0)
                \o <<UniqueFilename(1, ValidSample)>>)

FirstPathStem ==
    PathStr(<<"tickets", FirstId, "attachments">> \o YearMonth(0)
                \o <<UniqueFilename(1, [ValidSample EXCEPT !.ext = ""])>>)

RemoveSamples ==
    { ValidSample,
      [stem |-> "aA", ext |-> ".pdf", size |-> 10],
      [stem |-> "a%41", ext |-> ".pdf", size |-> 10],
      [stem |-> FirstPathStem, ext |-> ".pdf", size |-> 10] }

\* the strings asked for, in pieces
RemoveKeys(ticket_id) ==
    StoredKeys(ticket_id)
        \cup { <<"zz">>, <<"a", "%", "4", "1", ".pdf">>,
               <<"a", "%", "2", "5", "41.pdf">>, <<"a", "%", "4", "g">> }

RemoveCreate ==
    /\ tickets = EmptyFn
    /\ \E input \in TrailCreateInputs : CreateTicket(input, 1)
    /\ last'.id = FirstId

RemoveUpload ==
    /\ \E id \in DOMAIN tickets, f \in RemoveSamples, k \in NameDraws :
           /\ NamesFresh(<<UniqueFilename(k, f)>>)
           /\ UploadFiles(id, <<f>>, <<UniqueFilename(k, f)>>, 1, {}, FALSE, FALSE)
    /\ Len(mods') <= MaxRemoveMods
    /\ \A id \in DOMAIN tickets' : Len(tickets'[id].attached) <= MaxAttached

RemoveAttachment ==
    /\ \E id \in Targets, fault \in {"none", "remove", "commit", "audit"} :
         \E key \in RemoveKeys(id) :
           delete_attachment(id, key, 1, fault = "remove", fault = "commit",
                             fault = "audit")
    /\ Len(mods') <= MaxRemoveMods

NextRemove == RemoveCreate \/ RemoveUpload \/ RemoveAttachment

SpecRemove == Init /\ [][NextRemove]_vars

-----------------------------------------------------------------------------
(* SpecClean: the upload directories of two tickets over two months. Files  *)
(* are uploaded one at a time to a ticket that holds at most one, a write   *)
(* or a commit may fail, and stored attachments are removed by their path.  *)

\* the IDs of the two tickets: the first draws of the generator
CleanIds == <<IdStr(PrefixOf("incidence") \o Hex6(0)),
              IdStr(PrefixOf("incidence") \o Hex6(1))>>

CleanCreate ==
    /\ Cardinality(DOMAIN tickets) < Len(CleanIds)
    /\ \E input \in TrailCreateInputs : CreateTicket(input, 1)
    /\ last'.id = CleanIds[Cardinality(DOMAIN tickets) + 1]
    /\ last'.code = 200

CleanUpload ==
    /\ \E id \in DOMAIN tickets, fault \in {"none", "write", "commit"} :
         \E draws \in LeastDraws(<<ValidSample>>) :
           UploadFiles(id, <<ValidSample>>, NamesDrawn(<<ValidSample>>, draws), 1,
                       IF fault = "write" THEN {1} ELSE {},
                       fault = "commit", FALSE)
    /\ Len(mods') <= MaxCleanMods
    /\ \A id \in DOMAIN tickets' : Len(tickets'[id].attached) <= 1

CleanRemove ==
    /\ \E id \in DOMAIN tickets, fault \in {"none", "remove", "commit"} :
         \E k \in 1..Len(tickets[id].attached) :
           delete_attachment(id, <<PathStr(tickets[id].attached[k].path)>>, 1,
                             fault = "remove", fault = "commit", FALSE)
    /\ Len(mods') <= MaxCleanMods

\* a day passes between two requests
CleanDay ==
    /\ now + TicksPerDay <= MaxNow
    /\ now' = now + TicksPerDay
    /\ last' = Response("tick", 0, "", "", EmptyFn)
    /\ UNCHANGED <<tickets, mods, files, dirs, hist>>

NextClean == CleanDay \/ CleanCreate \/ CleanUpload \/ CleanRemove

SpecClean == Init /\ [][NextClean]_vars

-----------------------------------------------------------------------------------------------------------------------------------------------------
(* SpecGroups: the display groups of one ticket's audit trail. Notes are    *)
(* recorded and fields updated at times that lie half a second, a second or *)
(* seconds apart; the clock is read in ticks of 1/TicksPerSecond second.    *)

GroupNotes ==
    [ ticket_id : Targets, reason : {"note"}, field_name : {NoneStr},
      old_value : {NoneStr}, new_value : {NoneStr} ]

GroupUpdates == { [title |-> "t2", center_id |-> 1] }

GroupCreate ==
    /\ tickets = EmptyFn
    /\ \E input \in TrailCreateInputs : CreateTicket(input, 1)
    /\ last'.id = FirstId

GroupRecord ==
    /\ \E m \in GroupNotes : create_modification(m, 1)
    /\ Len(mods') <= MaxGroupMods

GroupUpdate ==
    /\ \E id \in DOMAIN tickets, data \in GroupUpdates :
           UpdateTicket(id, data, 1, FALSE)
    /\ Len(mods') <= MaxGroupMods

\* time passes between two requests
GroupWait ==
    /\ \E t \in (now + 1)..MaxGroupNow : now' = t
    /\ last' = Response("tick", 0, "", "", EmptyFn)
    /\ UNCHANGED <<tickets, mods, files, dirs, hist>>

GroupList == \E id \in Targets : get_ticket_modifications(id)

NextGroups ==
    GroupCreate \/ GroupRecord \/ GroupUpdate \/ GroupWait \/ GroupList

SpecGroups == Init /\ [][NextGroups]_vars

-----------------------------------------------------------------------------
(* SpecAuthors: the display groups of an audit trail that two users write:  *)
(* each records notes on the same ticket, within a second of the other or   *)
(* later.                                                                   *)

AuthorUsers == {1, 2}

AuthorCreate ==
    /\ tickets = EmptyFn
    /\ \E input \in TrailCreateInputs : CreateTicket(input, 1)
    /\ last'.id = FirstId

AuthorRecord ==
    /\ \E m \in GroupNotes, user \in AuthorUsers : create_modification(m, user)
    /\ Len(mods') <= MaxAuthorMods

AuthorWait ==
    /\ \E t \in (now + 1)..MaxAuthorNow : now' = t
    /\ last' = Response("tick", 0, "", "", EmptyFn)
    /\ UNCHANGED <<tickets, mods, files, dirs, hist>>

AuthorList == \E id \in Targets : get_ticket_modifications(id)

NextAuthors == AuthorCreate \/ AuthorRecord \/ AuthorWait \/ AuthorList

SpecAuthors == Init /\ [][NextAuthors]_vars

-----
(* SpecDescribe: the descriptions of recorded changes. Modification records *)
(* are stored with and without a field name, with values that are numbers,  *)
(* words, empty or absent, and the audit trail is listed.                   *)

DescribeFields == {NoneStr, "status_id", "center_id", "title", "attached", "color"}

DescribeValues == {NoneStr, "", "0", "1", ToString(UnknownStatusId), "abc"}

DescribeNotes ==
    [ ticket_id : Targets, reason : {"note"}, field_name : DescribeFields,
      old_value : {NoneStr}, new_value : DescribeValues ]

DescribeCreate ==
    /\ tickets = EmptyFn
    /\ \E input \in TrailCreateInputs : CreateTicket(input, 1)
    /\ last'.id = FirstId

DescribeRecord ==
    /\ \E m \in DescribeNotes : create_modification(m, 1)
    /\ Len(mods') <= MaxDescribeMods

DescribeList == \E id \in Targets : get_ticket_modifications(id)

NextDescribe == DescribeCreate \/ DescribeRecord \/ DescribeList

SpecDescribe == Init /\ [][NextDescribe]_vars

-----------------------------------------------------------------------------
(* SpecPairs: requests on one ticket that follow one another. Each handler  *)
(* is a coroutine without an await: the event loop runs it from its read of *)
(* the row to its commit before it starts the next request, so requests     *)
(* that arrive together are served one after the other, in any order.       *)

PairUsers == {1, 2}

PairUpdates ==
    { [title |-> "t1"], [title |-> "t2"], [center_id |-> 1],
      [title |-> "t2", center_id |-> 1] }

PairCreate ==
    /\ tickets = EmptyFn
    /\ \E input \in TrailCreateInputs : CreateTicket(input, 1)
    /\ last'.id = FirstId

PairUpdate ==
    /\ \E id \in DOMAIN tickets, data \in PairUpdates, user \in PairUsers :
           UpdateTicket(id, data, user, FALSE)
    /\ Len(mods') <= MaxPairMods

PairUpload ==
    /\ \E id \in DOMAIN tickets, user \in PairUsers :
         \E draws \in LeastDraws(<<ValidSample>>) :
           UploadFiles(id, <<ValidSample>>, NamesDrawn(<<ValidSample>>, draws),
                       user, {}, FALSE, FALSE)
    /\ Len(mods') <= MaxPairMods
    /\ \A id \in DOMAIN tickets' : Len(tickets'[id].attached) <= MaxAttached

NextPairs == PairCreate \/ PairUpdate \/ PairUpload

SpecPairs == Init /\ [][NextPairs]_vars

-----------------------------------------------------------------------------
(* SpecIds: the validator and the type extractor of ticket IDs. They are    *)
(* applied to the IDs the generator gives to created tickets and to strings *)
(* of nine and of other numbers of characters: hex parts in either case,    *)
(* with signs, blanks, underscores, a 0x and letters that are no digits.    *)

IdPrefixes == { <<"I", "N", "C">>, <<"S", "U", "G">>, <<"I", "N", "X">> }

IdParts ==
    { <<"0", "0", "0", "0", "0", "0">>, <<"1", "A", "2", "B", "3", "C">>,
      <<"a", "b", "c", "d", "e", "f">>, <<"0", "0", "0", "0", "0", "G">>,
      <<"0", "x", "1", "2", "3", "4">>, <<"0", "X", "_", "1", "2", "3">>,
      <<"+", "1", "2", "3", "4", "5">>, <<"-", "1", "2", "3", "4", "5">>,
      <<" ", "1", "2", "3", "4", "5">>, <<"1", "2", "3", "4", "5", " ">>,
      <<"1", "_", "2", "_", "3", "4">>, <<"1", "_", "_", "2", "3", "4">>,
      <<"_", "1", "2", "3", "4", "5">>, <<"1", "2", "3", "4", "5", "_">>,
      <<"0", "x", "0", "x", "1", "2">>, <<" ", " ", " ", " ", " ", " ">>,
      <<"1", "2", "3", "4", "5">>, <<"1", "2", "3", "4", "5", "6", "7">>,
      <<>> }

IdSamples == {p \o h : p \in IdPrefixes, h \in IdParts} \cup {<<>>}

IdCreate ==
    /\ Cardinality(DOMAIN tickets) < MaxIdTickets
    /\ \E input \in GenCreateInputs : CreateTicket(input, 1)

\* the strings the functions are applied to: the samples and the ID that
\* generate_ticket_id has just returned
IdInputs ==
    IdSamples \cup (IF last.op = "create" /\ last.code = 200 THEN {last.out}
                    ELSE {})

\* a call of is_valid_ticket_id and its result
IdValidate ==
    /\ \E ticket_id \in IdInputs :
         last' = [Response("valid", 200, "", "", ticket_id)
                    EXCEPT !.out = <<is_valid_ticket_id(ticket_id)>>]
    /\ UNCHANGED <<tickets, mods, files, dirs, now, hist>>

\* a call of get_ticket_type_from_id and its result
IdType ==
    /\ \E ticket_id \in IdInputs :
         last' = IF get_ticket_type_from_id(ticket_id) = Raised
                 THEN Response("type", 500, "value_error", "", ticket_id)
                 ELSE [Response("type", 200, "", "", ticket_id)
                         EXCEPT !.out = <<get_ticket_type_from_id(ticket_id)>>]
    /\ UNCHANGED <<tickets, mods, files, dirs, now, hist>>

NextIds == IdCreate \/ IdValidate \/ IdType

SpecIds == Init /\ [][NextIds]_vars

-----------------------------------------------------------------------------
(* SpecTypes: the type of a ticket against its ID. Tickets of any type are  *)
(* created and updates submit a type, recognised or not, or a title.        *)

TypeValues == {"incidence", "suggestion", "question"}

TypeUpdates == {[type |-> y] : y \in TypeValues} \cup {[title |-> "t2"]}

TypeCreate ==
    /\ Cardinality(DOMAIN tickets) < MaxTypeTickets
    /\ \E input \in GenCreateInputs : CreateTicket(input, 1)

TypeUpdate ==
    /\ \E id \in Targets, data \in TypeUpdates : UpdateTicket(id, data, 1, FALSE)
    /\ Len(mods') <= MaxTypeMods

NextTypes == TypeCreate \/ TypeUpdate

SpecTypes == Init /\ [][NextTypes]_vars

-----------------------------------------------------------------------------
(* Properties of the status state machine (SpecStatus) *)

IsUpdateOf(id) == last'.op = "update" /\ last'.id = id

\* C1: for every pair of catalog statuses (a, b), an update of a ticket in
\* status a that requests status b succeeds when a = b or b is listed for a
\* in the transition table, and is rejected with the invalid-transition error
\* for every other pair.
C1_TransitionTableEnforced ==
    [][\A id \in DOMAIN tickets :
         (/\ IsUpdateOf(id)
          /\ "status_id" \in DOMAIN last'.data
          /\ StatusValue(tickets[id].status_id) # ""
          /\ StatusValue(last'.data.status_id) # "")
         => LET a == StatusValue(tickets[id].status_id)
                b == StatusValue(last'.data.status_id)
            IN  IF a = b \/ b \in TransitionsGet(a)
                THEN /\ last'.code = 200
                     /\ tickets'[id].status_id = last'.data.status_id
                ELSE /\ last'.code = 400
                     /\ last'.err = "invalid_transition"
                     /\ tickets'[id].status_id = tickets[id].status_id
      ]_vars

\* an update from a catalog status outside the table was rejected
C1_Witness ==
    /\ last.op = "update" /\ last.err = "invalid_transition"
    /\ last.id \in DOMAIN tickets
    /\ StatusValue(tickets[last.id].status_id) = "discarted"

\* C5: when update_ticket fails (ticket absent, unknown status id, illegal
\* transition) the stored tickets and Modification rows are as before the call.
C5_FailedUpdateWritesNothing ==
    [][(last'.op = "update" /\ last'.code # 200)
         => (tickets' = tickets /\ mods' = mods)]_vars

\* an illegal transition was refused on a ticket while another row is stored
C5_Witness ==
    /\ last.op = "update" /\ last.code = 400 /\ last.err = "invalid_transition"
    /\ mods # <<>>

\* C12: create_ticket fails with a validation error and stores no ticket
\* when a reference of the request is absent from the reference catalog
\* (here: the status).
C12_CreateRejectsUnknownReference ==
    [][(last'.op = "create" /\ StatusValue(last'.data.status_id) = "")
         => (last'.code # 200 /\ tickets' = tickets)]_vars

\* C14: 'deleted' is reachable in one transition from every catalog status
\* other than 'deleted', and the only legal transition out of 'deleted' to
\* a different status is to 'reopened'.
C14_DeletedReachableAndExitsByReopened ==
    [][\A id \in DOMAIN tickets :
         (/\ IsUpdateOf(id)
          /\ "status_id" \in DOMAIN last'.data
          /\ StatusValue(tickets[id].status_id) # ""
          /\ StatusValue(last'.data.status_id) # ""
          /\ last'.data.status_id # tickets[id].status_id)
         => LET a == StatusValue(tickets[id].status_id)
                b == StatusValue(last'.data.status_id)
            IN  /\ b = "deleted" => last'.code = 200
                /\ a = "deleted" => (last'.code = 200 <=> b = "reopened")
      ]_vars

-----------------------------------------------------------------------------
(* Properties of the ticket's dates (Spec) *)

\* C2: in every reachable state and for every ticket, resolution_date is
\* set if and only if the ticket's status has at some point been 'solved'.
C2_ResolutionIffEverSolved ==
    \A id \in DOMAIN tickets :
        (tickets[id].resolution_date # NoneInt) <=> ("was_solved" \in hist[id])

\* C3: in every reachable state and for every ticket, delete_date is set if
\* and only if the ticket's current status is 'deleted'.
C3_DeleteDateIffDeleted ==
    \A id \in DOMAIN tickets :
        (tickets[id].delete_date # NoneInt)
            <=> (StatusValue(tickets[id].status_id) = "deleted")

\* C4 as claimed: right after create_ticket succeeds the new ticket's status
\* is 'created', whatever the caller supplied.
C4_CreatedStatusIsInitial ==
    (last.op = "create" /\ last.code = 200)
        => StatusValue(tickets[last.id].status_id) = "created"

\* C4 as amended: right after create_ticket succeeds the new ticket's status
\* is the status_id the caller supplied.
C4_CreatedStatusIsSupplied ==
    (last.op = "create" /\ last.code = 200)
        => tickets[last.id].status_id = last.data.status_id

\* a ticket was created directly in a status other than 'created'
C4_Witness ==
    /\ last.op = "create" /\ last.code = 200
    /\ StatusValue(last.data.status_id) = "solved"

ChangesIntoSolved(id) ==
    /\ IsUpdateOf(id) /\ last'.code = 200
    /\ "status_id" \in DOMAIN last'.data
    /\ last'.data.status_id # tickets[id].status_id
    /\ StatusValue(last'.data.status_id) = "solved"

RequestsStatus(id, v) ==
    /\ IsUpdateOf(id)
    /\ "status_id" \in DOMAIN last'.data
    /\ StatusValue(last'.data.status_id) = v

\* C13: soft deletion is reversible: for every ticket that has been
\* soft-deleted (delete_date set, by delete_ticket or by a transition to
\* 'deleted'), a following update to status 'reopened' is accepted.
C13_SoftDeleteReversible ==
    [][\A id \in DOMAIN tickets :
         (tickets[id].delete_date # NoneInt /\ RequestsStatus(id, "reopened"))
            => (last'.code = 200
                  /\ StatusValue(tickets'[id].status_id) = "reopened")
      ]_vars

\* C15: after every successful update_ticket call that changes a ticket's
\* status to 'deleted', the ticket's delete_date is set.
C15_DeleteDateSetOnDeleted ==
    [][\A id \in DOMAIN tickets :
         (/\ RequestsStatus(id, "deleted")
          /\ last'.code = 200
          /\ StatusValue(tickets[id].status_id) # "deleted")
            => tickets'[id].delete_date # NoneInt
      ]_vars

\* C16: an update from status 'deleted' to 'reopened' of a ticket that an
\* update has moved into 'deleted' succeeds and leaves delete_date unchanged,
\* equal to the value set when the ticket was deleted.
C16_ReopenKeepsDeleteDate ==
    [][\A id \in DOMAIN tickets :
         (/\ RequestsStatus(id, "reopened")
          /\ StatusValue(tickets[id].status_id) = "deleted"
          /\ "upd_deleted" \in hist[id])
            => /\ last'.code = 200
               /\ tickets'[id].delete_date = tickets[id].delete_date
               /\ tickets'[id].delete_date # NoneInt
      ]_vars

-----------------------------------------------------------------------------
(* Properties of field updates and the audit trail (SpecFields) *)

C6_AuditFailureKeepsMutation ==
    [][\A id \in DOMAIN tickets :
         (last'.id = id /\ last'.err = "audit_failed")
         => /\ last'.code = 200
            /\ last'.op = "update" =>
                   \A f \in DOMAIN last'.data :
                       tickets'[id][f] = Normalize(last'.data)[f]
            /\ last'.op = "upload" =>
                   Len(tickets'[id].attached) > Len(tickets[id].attached)
            /\ last'.op = "remove" =>
                   Len(tickets'[id].attached) < Len(tickets[id].attached)
      ]_vars

-----------------------------------------------------------------------------
(* Properties of the ID generator (SpecGen) *)

HexUpper == {HexChars[i] : i \in 1..Len(HexChars)}

\* C7: for both ticket types and every set of stored tickets, the ID
\* generate_ticket_id returns is the prefix of the type followed by 6 upper
\* case hex digits and differs from every ID stored at call time, also when
\* all 100 candidates collide and the timestamp fallback is used.
C7_GeneratedIdWellFormedAndFresh ==
    [][(last'.op = "create" /\ last'.data.type \in {"incidence", "suggestion"})
         => LET c == last'.out
            IN  /\ Len(c) = 9
                /\ SubSeq(c, 1, 3) = PrefixOf(last'.data.type)
                /\ \A i \in 4..9 : c[i] \in HexUpper
                /\ IdStr(c) \notin DOMAIN tickets
      ]_vars

-----------------------------------------------------------------------------
(* Properties of the attachment accessors (SpecFiles) *)

\* C8: the view and download accessors for ticket T serve a file only if the
\* path, once resolved, lies inside T's own subtree uploads/tickets/T/,
\* however the request path is written.
C8_ServedFileIsOwnedByTicket ==
    (last.op \in {"view", "download"} /\ last.code = 200)
        => /\ Len(last.out) > 3
           /\ SubSeq(last.out, 1, 3) = TICKETS_UPLOADS_DIR \o <<last.id>>

-----------------------------------------------------------------------------
(* Properties of the audit trail (SpecTrail) *)

\* C11: Modification records are append-only: across create, update, delete,
\* upload, remove and record operations, every Modification row stored in one
\* state is stored unchanged, at the same place, in the next.
C11_ModificationsAppendOnly ==
    [][/\ Len(mods') >= Len(mods)
       /\ SubSeq(mods', 1, Len(mods)) = mods]_vars

\* the trail holds the row of an upload, after it the row of a removal or of
\* an update, and last the row of a record call
C11_Witness ==
    /\ Len(mods) = 3
    /\ mods[1].reason = "Files uploaded"
    /\ mods[2].reason \in {"File deleted", "Updated title"}
    /\ mods[3].reason = "note"
    /\ last.op = "record" /\ last.code = 200

-----------------------------------------------------------------------------
(* Properties of batch uploads (SpecBatch) *)

\* every regular file below uploads/ is the backing file of an attachment
NoOrphanFile ==
    \A p \in files :
        \E id \in DOMAIN tickets : \E k \in 1..Len(tickets[id].attached) :
            UPLOADS_DIR \o tickets[id].attached[k].path = p

\* C17: if the metadata commit of upload_files fails after file bytes were
\* written, every file written by that upload is deleted and the ticket's
\* attachment list is as before the call: no backing file exists without a
\* metadata entry.
C17_FailedCommitLeavesNoOrphan ==
    [][/\ (last'.op = "upload" /\ last'.err = "commit_failed")
            => (last'.code = 500 /\ files' = files /\ tickets' = tickets)
       /\ NoOrphanFile']_vars

\* the commit of a batch of two valid files failed on a ticket that has an
\* attachment already
C17_Witness ==
    /\ last.op = "upload" /\ last.err = "commit_failed"
    /\ Len(last.out.uploaded) = 2
    /\ Len(tickets[last.id].attached) = 1
    /\ Cardinality(files) = 1

\* does the upload answer for a ticket that exists and a batch with files
UploadAnswers == last'.op = "upload" /\ last'.code = 200

\* the files of the batch that pass sel, by name, in batch order
NamesOf(batch, sel(_)) ==
    LET picked == SelectSeq(batch, sel)
    IN  [k \in 1..Len(picked) |-> FileName(picked[k])]

\* what an upload that answered has stored: the files it lists as uploaded
\* are at the end of the attachment list and on disk, the files it lists as
\* failed are on no path written by the call
StoredAsListed(id) ==
    LET up == last'.out.uploaded
    IN  /\ tickets'[id].attached = tickets[id].attached \o up
        /\ files' = files \cup {UPLOADS_DIR \o up[k].path : k \in 1..Len(up)}
        /\ Cardinality(files') = Cardinality(files) + Len(up)

\* C18 as claimed: in a batch upload each file larger than 50 MiB or with an
\* extension outside the allow-list is reported in failed_uploads and is
\* neither written nor listed, every other file of the batch is stored and
\* listed; a bad file never fails the batch.
C18_BadFilesFailAlone ==
    [][\A id \in DOMAIN tickets :
         (last'.op = "upload" /\ last'.id = id /\ last'.data # <<>>
             /\ last'.err # "commit_failed")
         => LET bad(f) == f.size > MAX_FILE_SIZE \/ f.ext \notin ALLOWED_EXTENSIONS
                good(f) == ~bad(f)
                failed == last'.out.failed
                up     == last'.out.uploaded
            IN  /\ last'.code = 200
                /\ [k \in 1..Len(failed) |-> failed[k].filename]
                       = NamesOf(last'.data, bad)
                /\ [k \in 1..Len(up) |-> up[k].original_name]
                       = NamesOf(last'.data, good)
                /\ StoredAsListed(id)
      ]_vars

\* C18 as amended: each file larger than 50 MiB, or named with an extension
\* outside the allow-list, is reported in failed_uploads and is neither
\* written nor listed; every other file of the batch, an unnamed file
\* included, is stored and listed unless its write to disk fails, and is then
\* reported in failed_uploads too; a bad file never fails the batch.
C18_RefusedFilesFailAlone ==
    [][\A id \in DOMAIN tickets :
         (last'.op = "upload" /\ last'.id = id /\ last'.data # <<>>
             /\ last'.err # "commit_failed")
         => LET refused(f) ==
                    \/ f.size > MAX_FILE_SIZE
                    \/ FileName(f) # "" /\ f.ext \notin ALLOWED_EXTENSIONS
                valid(f) == ~refused(f)
                failed  == last'.out.failed
                unsaved == SelectSeq(failed,
                               LAMBDA e : e.error = "Failed to save file")
                refusals == SelectSeq(failed,
                               LAMBDA e : e.error # "Failed to save file")
                up      == last'.out.uploaded
            IN  /\ last'.code = 200
                /\ [k \in 1..Len(refusals) |-> refusals[k].filename]
                       = NamesOf(last'.data, refused)
                /\ Len(up) + Len(unsaved)
                       = Len(NamesOf(last'.data, valid))
                /\ \A k \in 1..Len(up) :
                       \E i \in 1..Len(last'.data) :
                           /\ valid(last'.data[i])
                           /\ up[k].original_name = FileName(last'.data[i])
                           /\ up[k].size = last'.data[i].size
                /\ \A k \in 1..Len(unsaved) :
                       \E i \in 1..Len(last'.data) :
                           /\ valid(last'.data[i])
                           /\ unsaved[k].filename = FileName(last'.data[i])
                /\ StoredAsListed(id)
      ]_vars

\* a batch of a refused file and a valid file: the first is reported, the
\* second is stored
C18_Witness ==
    /\ last.op = "upload" /\ last.code = 200
    /\ Len(last.data) = 2
    /\ last.data[1].ext = ".exe" /\ last.data[2].ext = ".pdf"
    /\ Len(last.out.failed) = 1 /\ last.out.failed[1].filename = "b.exe"
    /\ Len(last.out.uploaded) = 1
    /\ UPLOADS_DIR \o last.out.uploaded[1].path \in files

\* C19 as claimed: every batch upload emits exactly one Modification record,
\* however many files the batch holds, whose old and new values are the
\* attachment counts before and after the batch.
C19_OneModificationPerBatch ==
    [][\A id \in DOMAIN tickets :
         (UploadAnswers /\ last'.id = id)
         => /\ Len(mods') = Len(mods) + 1
            /\ SubSeq(mods', 1, Len(mods)) = mods
            /\ mods'[Len(mods')].ticket_id = id
            /\ mods'[Len(mods')].field_name = "attached"
            /\ mods'[Len(mods')].old_value = ToString(Len(tickets[id].attached))
            /\ mods'[Len(mods')].new_value = ToString(Len(tickets'[id].attached))
      ]_vars

\* C19 as amended: a batch upload that stores at least one file and whose
\* Modification write succeeds emits exactly one Modification record, however
\* many files it stores, whose old and new values are the attachment counts
\* before and after the batch; any other upload emits none.
C19_OneModificationPerStoredBatch ==
    [][\A id \in DOMAIN tickets :
         (last'.op = "upload" /\ last'.id = id)
         => IF /\ last'.code = 200 /\ last'.err = ""
               /\ last'.out.uploaded # <<>>
            THEN /\ Len(mods') = Len(mods) + 1
                 /\ SubSeq(mods', 1, Len(mods)) = mods
                 /\ mods'[Len(mods')].ticket_id = id
                 /\ mods'[Len(mods')].field_name = "attached"
                 /\ mods'[Len(mods')].old_value
                        = ToString(Len(tickets[id].attached))
                 /\ mods'[Len(mods')].new_value
                        = ToString(Len(tickets'[id].attached))
            ELSE mods' = mods
      ]_vars

\* a batch of two files, both stored, left one row, from 0 to 2
C19_Witness ==
    /\ last.op = "upload" /\ last.code = 200 /\ last.err = ""
    /\ Len(last.out.uploaded) = 2
    /\ Len(mods) = 1
    /\ mods[1].old_value = "0" /\ mods[1].new_value = "2"

-----------------------------------------------------------------------------
(* Properties of attachment removal (SpecRemove) *)

\* the least element of a non-empty set of positions, 0 for the empty set
FirstOf(S) == IF S = {} THEN 0 ELSE CHOOSE k \in S : \A j \in S : k <= j

-----------------------------------------------------------------------------
(* Properties of directory cleanup (SpecClean) *)

\* uploads/tickets/{ticket_id}
TicketRoot(ticket_id) == TICKETS_UPLOADS_DIR \o <<ticket_id>>

\* q lies strictly below directory d
Below(q, d) == Len(q) > Len(d) /\ SubSeq(q, 1, Len(d)) = d

\* C21: the directory cleanup of an attachment removal removes only empty
\* directories strictly below the root directory of the ticket the request
\* names: never that root, never a directory above it, never a directory of
\* another ticket, and it adds none.
C21_CleanupStaysBelowTicketRoot ==
    [][\A id \in DOMAIN tickets :
         (last'.op = "remove" /\ last'.id = id)
         => /\ dirs' \subseteq dirs
            /\ \A d \in dirs \ dirs' :
                 /\ Below(d, TicketRoot(id))
                 /\ \A q \in files' \cup dirs' : ~Below(q, d)
      ]_vars

\* a removal emptied and cleaned the directories of one ticket, its root is
\* left, and the other ticket still has a file in its own directories
C21_Witness ==
    /\ last.op = "remove" /\ last.code = 200
    /\ TicketRoot(last.id) \in dirs
    /\ TicketRoot(last.id) \o <<"attachments">> \notin dirs
    /\ \E t \in DOMAIN tickets \ {last.id} :
         \E q \in files : Below(q, TicketRoot(t))

\* C22: when one file was uploaded to a ticket without attachments and the
\* next request removes it by the path the upload returned, with no storage
\* or commit failure, the removal succeeds and the ticket is left with no
\* attachment entry, no file below its root, without the month directory of
\* the upload, without its year directory unless that holds another month,
\* and with its root directory.
C22_UploadRemoveRoundTrip ==
    [][\A id \in DOMAIN tickets :
         ( /\ last.op = "upload" /\ last.id = id /\ last.code = 200
           /\ Len(last.out.uploaded) = 1
           /\ Len(tickets[id].attached) = 1
           /\ last'.op = "remove" /\ last'.id = id
           /\ last'.data = <<PathStr(last.out.uploaded[1].path)>>
           /\ last'.err \notin {"remove_failed", "commit_failed"} )
         => LET month == UPLOADS_DIR \o Parent(last.out.uploaded[1].path)
                year  == Parent(month)
            IN  /\ last'.code = 200
                /\ tickets'[id].attached = <<>>
                /\ \A q \in files' : ~Below(q, TicketRoot(id))
                /\ month \notin dirs'
                /\ year \in dirs' => \E q \in dirs' : Parent(q) = year
                /\ TicketRoot(id) \in dirs'
      ]_vars

\* an upload to a ticket without attachments and its removal are the two
\* rows of the audit trail, and the ticket's root is its only directory left
C22_Witness ==
    /\ last.op = "remove" /\ last.code = 200
    /\ Len(mods) = 2
    /\ mods[1].ticket_id = last.id /\ mods[1].reason = "Files uploaded"
    /\ mods[1].old_value = "0" /\ mods[1].new_value = "1"
    /\ mods[2].ticket_id = last.id /\ mods[2].reason = "File deleted"
    /\ mods[2].new_value = "0"
    /\ tickets[last.id].attached = <<>>
    /\ TicketRoot(last.id) \in dirs
    /\ \A q \in dirs : ~Below(q, TicketRoot(last.id))

-----------------------------------------------------------------------------
(* Properties of the display groups (SpecGroups, SpecAuthors) *)

\* the rows of every group of a listing, one after the other
RECURSIVE RowsListed(_)
RowsListed(groups) ==
    IF groups = <<>> THEN <<>>
    ELSE Head(groups).rows \o RowsListed(Tail(groups))

\* the answer of this step is the listing of ticket id
Lists(id) == last'.op = "list" /\ last'.id = id /\ last'.code = 200

\* C23: a listing holds every modification of the ticket once, newest first;
\* the anchor of a group is its first row; every row of a group lies at most
\* one second from the anchor, and the first row of the next group lies more
\* than one second from it.
C23_GroupsWithinOneSecondOfAnchor ==
    [][\A id \in DOMAIN tickets :
         Lists(id)
         => LET groups == last'.out
                listed == RowsListed(groups)
            IN  /\ Len(listed) = Cardinality(RowsOf(id))
                /\ {listed[i] : i \in 1..Len(listed)} = RowsOf(id)
                /\ \A i, j \in 1..Len(listed) :
                     i < j => mods[listed[i]].date >= mods[listed[j]].date
                /\ \A g \in 1..Len(groups) :
                     /\ groups[g].rows # <<>>
                     /\ groups[g].id = groups[g].rows[1]
                     /\ groups[g].date = mods[groups[g].rows[1]].date
                     /\ \A i \in 1..Len(groups[g].rows) :
                          Abs(mods[groups[g].rows[i]].date - groups[g].date)
                              <= TicksPerSecond
                     /\ g < Len(groups) =>
                          Abs(mods[groups[g + 1].rows[1]].date - groups[g].date)
                              > TicksPerSecond
      ]_vars

\* rows at T, T + 0.5 s and T + 3 s were listed as the group of the row at
\* T + 3 s followed by the group of the rows at T + 0.5 s and T
C23_Witness ==
    /\ last.op = "list" /\ last.code = 200
    /\ Len(mods) = 3
    /\ 2 * mods[2].date = 2 * mods[1].date + TicksPerSecond
    /\ mods[3].date = mods[1].date + 3 * TicksPerSecond
    /\ Len(last.out) = 2
    /\ last.out[1].rows = <<3>>
    /\ last.out[2].rows = <<2, 1>>

\* C26: every row of a display group was written by the user the group
\* exposes.
C26_GroupRowsShareUser ==
    [][\A id \in DOMAIN tickets :
         Lists(id)
         => \A g \in 1..Len(last'.out) :
              \A i \in 1..Len(last'.out[g].rows) :
                mods[last'.out[g].rows[i]].user_id = last'.out[g].user_id
      ]_vars

-----------------------------------------------------------------------------
(* Properties of the change descriptions (SpecDescribe) *)

\* C27: listing the modification groups of a stored ticket succeeds whatever
\* records create_modification stored for it, and every change listed is a
\* text.
C27_ListingNeverFails ==
    [][\A id \in DOMAIN tickets :
         (last'.op = "list" /\ last'.id = id)
         => /\ last'.code = 200
            /\ \A g \in 1..Len(last'.out) :
                 \A i \in 1..Len(last'.out[g].changes) :
                   last'.out[g].changes[i] # Raised
      ]_vars

-----------------------------------------------------------------------------
(* Properties of requests that follow one another (SpecPairs) *)

-----------------------------------------------------------------------------
(* Properties of the ID validator and the type extractor (SpecIds) *)

\* prefix INC or SUG followed by exactly six hexadecimal digits
WellFormedId(s) ==
    /\ Len(s) = 9
    /\ SubSeq(s, 1, 3) \in {<<"I", "N", "C">>, <<"S", "U", "G">>}
    /\ \A i \in 4..9 : IsHexDigit(s[i])

\* C25: is_valid_ticket_id answers true exactly for the strings made of the
\* prefix INC or SUG and six hexadecimal digits; get_ticket_type_from_id
\* maps each of them to the type of its prefix, and the ID generated for a
\* ticket of type t to t.
C25_ValidatorAcceptsExactlyWellFormedIds ==
    [][/\ last'.op = "valid" => last'.out = <<WellFormedId(last'.data)>>
       /\ (last'.op = "type" /\ WellFormedId(last'.data))
            => /\ last'.code = 200
               /\ last'.out = <<IF SubSeq(last'.data, 1, 3) = <<"I", "N", "C">>
                                THEN "incidence" ELSE "suggestion">>
       /\ (last'.op = "type" /\ last.op = "create" /\ last.code = 200
             /\ last'.data = last.out)
            => last'.out = <<last.data.type>>
      ]_vars

-----------------------------------------------------------------------------
(* Properties of the ticket type (SpecTypes) *)

\* the hex parts generate_ticket_id can put after the prefix
HexParts == HexDraws \cup {Hex6(e % TimestampMod) : e \in Epochs}

\* C28: after any sequence of create_ticket and update_ticket calls, the type
\* of every stored ticket is 'incidence' or 'suggestion' and its ID starts
\* with the prefix of that type (INC for incidence, SUG for suggestion).
C28_TypeAgreesWithIdPrefix ==
    \A id \in DOMAIN tickets :
        /\ tickets[id].type \in {"incidence", "suggestion"}
        /\ \E h \in HexParts : id = IdStr(PrefixOf(tickets[id].type) \o h)

-----------------------------------------------------------------------------
(* Properties of the status audit trail (SpecStatus) *)

\* the status_id Modification rows of a ticket, by row id
StatusRows(id) ==
    {k \in 1..Len(mods) :
        mods[k].ticket_id = id /\ mods[k].field_name = "status_id"}

\* the (old, new) pair is a transition of STATUS_TRANSITIONS between two
\* catalog statuses
LegalPair(old_value, new_value) ==
    \E a, b \in StatusIds :
        /\ old_value = ToString(a)
        /\ new_value = ToString(b)
        /\ StatusValue(b) \in TransitionsGet(StatusValue(a))

\* C29: after any sequence of update_ticket calls, the newest status_id
\* Modification of a ticket has new_value equal to the ticket's current
\* status_id, each status_id Modification's old_value equals the new_value
\* of the one before it, and each recorded (old, new) pair is a legal
\* transition.
C29_AuditTrailAgreesWithStatus ==
    \A id \in DOMAIN tickets :
        LET rows == StatusRows(id)
        IN  /\ \A k \in rows :
                  (\A j \in rows : j <= k)
                     => mods[k].new_value = StrInt(tickets[id].status_id)
            /\ \A j, k \in rows :
                  (j < k /\ ~\E m \in rows : j < m /\ m < k)
                     => mods[k].old_value = mods[j].new_value
            /\ \A k \in rows : LegalPair(mods[k].old_value, mods[k].new_value)

-----------------------------------------------------------------------------
(* Properties of the initial status (SpecStatus) *)

\* the catalog statuses a ticket that has left 'created' can be in
LeftCreated == StatusIds \ {StatusIdOf("created")}

\* C30: once a ticket's status has changed away from 'created', no accepted
\* update_ticket call brings it back: a change away from 'created' lands in
\* another catalog status, and from a catalog status other than 'created'
\* every step leaves the ticket in such a status.
C30_CreatedIsNeverReentered ==
    [][\A id \in DOMAIN tickets :
          LET a == tickets[id].status_id
              b == tickets'[id].status_id
          IN  /\ (a = StatusIdOf("created") /\ b # a) => b \in LeftCreated
              /\ a \in LeftCreated => b \in LeftCreated
      ]_vars

\* a ticket that has left 'created' is asked to go back and is refused
C30_Witness ==
    /\ last.op = "update" /\ last.code = 400 /\ last.err = "invalid_transition"
    /\ last.data = [status_id |-> StatusIdOf("created")]
    /\ last.id \in DOMAIN tickets
    /\ tickets[last.id].status_id \in LeftCreated
    /\ \E k \in StatusRows(last.id) :
          mods[k].old_value = ToString(StatusIdOf("created"))

====
